---- MODULE Spec2Model ----
(***************************************************************************)
(* A model of the geometry kernel of cpp-geometry-utils: Point, Line,      *)
(* Polygon and the operations the verified properties are about.           *)
(*                                                                         *)
(* Numbers.  The program computes in IEEE floating point.  The model       *)
(* computes exactly: a scalar is a fraction num / den, a Point carries its *)
(* three numerators over one common denominator w, and the value the       *)
(* floating point unit returns for 0 / 0 (NaN) is the fraction with den =  *)
(* 0 and the Point with w = 0.  Every coordinate c stands for the real     *)
(* number c / Scale, so products of two coordinates stand in units of      *)
(* 1 / Scale^2; the absolute tolerances of the code (1e-6, and             *)
(* FLT_EPSILON * 1e6 in Line::intersects) are converted to those units     *)
(* where they are compared.  Polygon vertices are drawn from the lattice   *)
(* of whole numbers (multiples of Scale, w = 1), on which every float      *)
(* operation of the polygon code is exact; segments are also drawn from    *)
(* the fine lattice of the multiples of 1 / Scale.                         *)
(***************************************************************************)
EXTENDS Integers, Sequences, FiniteSets, TLC

VARIABLES
    vertices,   \* Polygon::vertices, the ordered vertex list
    start,      \* Line::start
    end,        \* Line::end
    plane,      \* a Plane: its fields normal and point
    this,       \* a Point that is modified in place (*this)
    op,         \* the operation that produced this state
    arg,        \* its argument
    ret         \* its result

vars == <<vertices, start, end, plane, this, op, arg, ret>>

(***************************************************************************)
(* Bounds of the model.                                                    *)
(***************************************************************************)
Scale == 16         \* lattice resolution: coordinate c stands for c / Scale
MaxCoord == 2       \* polygon vertices have whole coordinates 0 .. MaxCoord
MaxVerts == 5       \* a polygon has at most MaxVerts vertices
MaxQueryVerts == 4  \* ... and at most MaxQueryVerts where points are queried
MaxFine == 2        \* segment end points have fine coordinates 0 .. MaxFine
MaxTiny == 2        \* near-zero vectors have coordinates 0 .. MaxTiny
TinyDiv == 2        \* ... in units of 1e-6 / TinyDiv
MaxPlaneCoord == 1  \* planes and segments: points of the cube 0 .. MaxPlaneCoord
MaxUtilCoord == 1   \* normals of intersected planes: coordinates 0 .. MaxUtilCoord
MaxDivTerm == 8     \* quotients have numerators, denominators up to MaxDivTerm
MaxLineCoord == 2   \* intersected segments: whole coordinates 0 .. MaxLineCoord
MaxCoef == 3        \* plane coefficients are -MaxCoef .. MaxCoef (units of 1e-6 / TinyDiv)
MaxPairVerts == 3   \* two polygons that are tested against each other
                    \* have up to MaxPairVerts vertices each

\* No value: no argument, no result, no object
None == [none |-> TRUE]

(***************************************************************************)
(* Scalars (float, double)                                                 *)
(***************************************************************************)
Abs(n) == IF n < 0 THEN -n ELSE n
Min(a, b) == IF a <= b THEN a ELSE b
Max(a, b) == IF a >= b THEN a ELSE b
Sign(n) == IF n > 0 THEN 1 ELSE IF n < 0 THEN -1 ELSE 0

RECURSIVE Gcd(_, _)
Gcd(a, b) == IF b = 0 THEN a ELSE Gcd(b, a % b)

\* The scalar num / den in lowest terms with den > 0.  den = 0 is what the
\* floating point unit returns for a division by zero: NaN (num = 0) or an
\* infinity (num = 1, -1).
Frac(num, den) ==
    IF den = 0 THEN [num |-> Sign(num), den |-> 0]
    ELSE IF den = 1 THEN [num |-> num, den |-> 1]
    ELSE LET g == Gcd(Abs(num), Abs(den))
             s == Sign(den)
         IN [num |-> s * (num \div g), den |-> s * (den \div g)]

NaN == [num |-> 0, den |-> 0]
IsNaN(a) == a.den = 0 /\ a.num = 0

\* a * b
FMul(a, b) ==
    IF IsNaN(a) \/ IsNaN(b) THEN NaN
    ELSE IF a.den = 0 \/ b.den = 0
         THEN [num |-> Sign(a.num) * Sign(b.num), den |-> 0]
    ELSE Frac(a.num * b.num, a.den * b.den)

\* a / b
FDiv(a, b) ==
    IF IsNaN(a) \/ IsNaN(b) THEN NaN
    ELSE IF b.den = 0 THEN (IF a.den = 0 THEN NaN ELSE Frac(0, 1))
    ELSE IF a.den = 0 THEN [num |-> a.num * (IF b.num < 0 THEN -1 ELSE 1), den |-> 0]
    ELSE IF b.num = 0 THEN [num |-> Sign(a.num), den |-> 0]
    ELSE Frac(a.num * b.den, a.den * b.num)

\* a < b, a <= b: false when either is NaN
FLess(a, b) ==
    IF IsNaN(a) \/ IsNaN(b) THEN FALSE
    ELSE IF a.den = 0 \/ b.den = 0
         THEN (IF a.den = 0 THEN a.num ELSE 0) < (IF b.den = 0 THEN b.num ELSE 0)
              \/ (a.den = 0 /\ a.num < 0 /\ b.den # 0)
              \/ (b.den = 0 /\ b.num > 0 /\ a.den # 0)
    ELSE a.num * b.den < b.num * a.den

FLeq(a, b) ==
    IF IsNaN(a) \/ IsNaN(b) THEN FALSE
    ELSE IF a.den = 0 /\ b.den = 0 THEN a.num <= b.num
    ELSE IF a.den = 0 THEN a.num < 0
    ELSE IF b.den = 0 THEN b.num > 0
    ELSE a.num * b.den <= b.num * a.den

(***************************************************************************)
(* Point                                                                   *)
(***************************************************************************)
\* The point (x / w, y / w, z / w); w = 0 is the point whose three
\* components are NaN.
HPoint(px, py, pz, pw) ==
    IF pw = 0 THEN [x |-> 0, y |-> 0, z |-> 0, w |-> 0]
    ELSE IF pw = 1 THEN [x |-> px, y |-> py, z |-> pz, w |-> 1]
    ELSE LET g == Gcd(Gcd(Gcd(Abs(px), Abs(py)), Abs(pz)), Abs(pw))
             s == Sign(pw)
         IN [x |-> s * (px \div g), y |-> s * (py \div g),
             z |-> s * (pz \div g), w |-> s * (pw \div g)]

\* Point(x, y, z) for coordinates that are multiples of 1 / Scale
Point(px, py, pz) == [x |-> px, y |-> py, z |-> pz, w |-> 1]

\* operator-(Point, Point)
Sub(a, b) ==
    IF a.w = 1 /\ b.w = 1 THEN Point(a.x - b.x, a.y - b.y, a.z - b.z)
    ELSE HPoint(a.x * b.w - b.x * a.w, a.y * b.w - b.y * a.w,
                a.z * b.w - b.z * a.w, a.w * b.w)

\* operator+(Point, Point)
Add(a, b) ==
    IF a.w = 1 /\ b.w = 1 THEN Point(a.x + b.x, a.y + b.y, a.z + b.z)
    ELSE HPoint(a.x * b.w + b.x * a.w, a.y * b.w + b.y * a.w,
                a.z * b.w + b.z * a.w, a.w * b.w)

\* operator*(Point, double).  (An infinite scalar does not arise: the only
\* quotient that is multiplied into a Point is the t of Line::project.)
Mul(p, s) ==
    IF s.den = 0 THEN HPoint(0, 0, 0, 0)
    ELSE HPoint(p.x * s.num, p.y * s.num, p.z * s.num, p.w * s.den)

\* Point::magnitude_squared
magnitude_squared(a) ==
    Frac(a.x * a.x + a.y * a.y + a.z * a.z, a.w * a.w)

\* dot_product(a, b)
dot_product(a, b) ==
    Frac(a.x * b.x + a.y * b.y + a.z * b.z, a.w * b.w)

\* cross_product(a, b)
cross_product(a, b) ==
    HPoint(a.y * b.z - a.z * b.y,
           a.z * b.x - a.x * b.z,
           a.x * b.y - a.y * b.x,
           a.w * b.w)

\* Point::distance_to is std::hypot of the differences; the model keeps the
\* square of the distance, which orders distances as hypot does.
distance_to_squared(a, b) == magnitude_squared(Sub(a, b))

\* The whole-number lattice the polygon vertices are drawn from (z = 0: the
\* polygon is a 2D polygon).
PolyPoints == { Point(Scale * i, Scale * j, 0) : i \in 0..MaxCoord, j \in 0..MaxCoord }

(***************************************************************************)
(* Tolerances                                                              *)
(***************************************************************************)
\* 1e-6 is 1 / EpsInv
EpsInv == 1000000

\* sqrt(msq) < 1e-6f, for msq the squared magnitude of a vector whose
\* components are products of two coordinates (units of 1 / Scale^2):
\*     msq.num * EpsInv^2 < msq.den * Scale^4,
\* computed by two floor divisions so that no product leaves the integers
\* of the model checker.  NaN < 1e-6f is false.
MagnitudeBelowEps(msq) ==
    IF msq.den = 0 THEN FALSE
    ELSE IF msq.num = 0 THEN TRUE
    ELSE LET b == msq.den * Scale * Scale * Scale * Scale
             q1 == b \div EpsInv
             q2 == q1 \div EpsInv
         IN \/ msq.num < q2
            \/ (msq.num = q2 /\ (b % EpsInv # 0 \/ q1 % EpsInv # 0))

\* The fraction of the coordinate c (a numerator over w) in 1 / Scale units
Coord(c, w) == Frac(c, w)

\* 1e-6f in 1 / Scale units
EpsCoord == Frac(Scale, EpsInv)

\* a + b for two finite fractions
FAdd(a, b) == Frac(a.num * b.den + b.num * a.den, a.den * b.den)

(***************************************************************************)
(* Line                                                                    *)
(***************************************************************************)
\* Line::are_collinear(a, b, c, epsilon = 1e-6f)
are_collinear(a, b, c) ==
    LET ab == Sub(b, a)
        ac == Sub(c, a)
    IN MagnitudeBelowEps(magnitude_squared(cross_product(ab, ac)))

\* Line::contains(p, epsilon = 1e-6f) for the segment start-end
LineContains(s, e, p) ==
    IF ~are_collinear(s, e, p) THEN FALSE
    ELSE LET eps == EpsCoord
             min_x == FAdd(Frac(Min(s.x, e.x), 1), Frac(-eps.num, eps.den))
             max_x == FAdd(Frac(Max(s.x, e.x), 1), eps)
             min_y == FAdd(Frac(Min(s.y, e.y), 1), Frac(-eps.num, eps.den))
             max_y == FAdd(Frac(Max(s.y, e.y), 1), eps)
             min_z == FAdd(Frac(Min(s.z, e.z), 1), Frac(-eps.num, eps.den))
             max_z == FAdd(Frac(Max(s.z, e.z), 1), eps)
         IN /\ FLeq(min_x, Coord(p.x, p.w)) /\ FLeq(Coord(p.x, p.w), max_x)
            /\ FLeq(min_y, Coord(p.y, p.w)) /\ FLeq(Coord(p.y, p.w), max_y)
            /\ FLeq(min_z, Coord(p.z, p.w)) /\ FLeq(Coord(p.z, p.w), max_z)

\* Line::project(p) for the segment s-e
project(s, e, p) ==
    LET vec == Sub(e, s)
        rel == Sub(p, s)
        t == FDiv(dot_product(rel, vec), magnitude_squared(vec))
    IN IF FLeq(t, Frac(0, 1)) THEN s
       ELSE IF FLeq(Frac(1, 1), t) THEN e
       ELSE Add(s, Mul(vec, t))

\* Line::reflect(p)
reflect(s, e, p) ==
    LET proj == project(s, e, p)
    IN Sub(Mul(proj, Frac(2, 1)), p)

\* Line::distance_to(p), squared
distance_to(s, e, p) ==
    LET projection == project(s, e, p)
    IN distance_to_squared(p, projection)

\* The epsilon of Line::intersects: numeric_limits<float>::epsilon() * 1e6
\* = 2^-23 * 10^6 = IntersectsEpsNum / IntersectsEpsDen
IntersectsEpsNum == 15625
IntersectsEpsDen == 131072

\* The lambda ccw of Line::intersects: the sign of the orientation value,
\* which is a product of coordinates (units of 1 / Scale^2), with the
\* values within epsilon of 0 counted as 0.
ccw(a, b, c) ==
    LET val == (b.x - a.x) * (c.y - a.y) - (b.y - a.y) * (c.x - a.x)
        epsilon == Frac(IntersectsEpsNum * Scale * Scale, IntersectsEpsDen)
    IN IF FLess(epsilon, Frac(val, 1)) THEN 1
       ELSE IF FLess(Frac(val, 1), Frac(-epsilon.num, epsilon.den)) THEN -1
       ELSE 0

\* The lambda on_segment of Line::intersects: a is in the bounding box of
\* b, c widened by epsilon (coordinates: units of 1 / Scale)
on_segment(a, b, c) ==
    LET epsilon == Frac(IntersectsEpsNum * Scale, IntersectsEpsDen)
        minus == Frac(-epsilon.num, epsilon.den)
    IN /\ FLeq(Frac(a.x, 1), FAdd(Frac(Max(b.x, c.x), 1), epsilon))
       /\ FLeq(FAdd(Frac(Min(b.x, c.x), 1), minus), Frac(a.x, 1))
       /\ FLeq(Frac(a.y, 1), FAdd(Frac(Max(b.y, c.y), 1), epsilon))
       /\ FLeq(FAdd(Frac(Min(b.y, c.y), 1), minus), Frac(a.y, 1))

\* Line::intersects(other) for the segments s-e and other
intersects(s, e, other) ==
    LET p1 == s
        p2 == e
        p3 == other.start
        p4 == other.end
        o1 == ccw(p1, p2, p3)
        o2 == ccw(p1, p2, p4)
        o3 == ccw(p3, p4, p1)
        o4 == ccw(p3, p4, p2)
    IN IF o1 # o2 /\ o3 # o4 THEN TRUE
       ELSE IF o1 = 0 /\ on_segment(p3, p1, p2) THEN TRUE
       ELSE IF o2 = 0 /\ on_segment(p4, p1, p2) THEN TRUE
       ELSE IF o3 = 0 /\ on_segment(p1, p3, p4) THEN TRUE
       ELSE IF o4 = 0 /\ on_segment(p2, p3, p4) THEN TRUE
       ELSE FALSE

\* throw std::runtime_error(...)
RuntimeError == [throws |-> "std::runtime_error"]

\* Point::normalized: *this / len for len = magnitude(), which is the
\* square root of magnitude_squared: the result is kept as the vector dir
\* divided by the square root of len_sq.
normalized(v) ==
    LET len_sq == magnitude_squared(v)
    IN IF len_sq.den # 0 /\ len_sq.num = 0 THEN RuntimeError
       ELSE [dir |-> v, len_sq |-> len_sq]

\* Line::direction
direction(s, e) ==
    LET vec == Sub(e, s)
    IN normalized(vec)

(***************************************************************************)
(* Polygon                                                                 *)
(***************************************************************************)
\* vertices[(i + 1) % size], for the 1-based index i
NextIdx(vs, i) == (i % Len(vs)) + 1

\* A plausible slip: the loop stops before the closing edge (no wrap-around).
RECURSIVE AreaSumNoWrap(_, _, _)
AreaSumNoWrap(vs, i, sum) ==
    IF i >= Len(vs) THEN sum
    ELSE LET current == vs[i]
             next == vs[i + 1]
         IN AreaSumNoWrap(vs, i + 1, sum + (current.x * next.y - next.x * current.y))

\* The accumulation loop of Polygon::area: sum after vertices i .. size.
RECURSIVE AreaSum(_, _, _)
AreaSum(vs, i, sum) ==
    IF i > Len(vs) THEN sum
    ELSE LET current == vs[i]
             next == vs[NextIdx(vs, i)]
         IN AreaSum(vs, i + 1, sum + (current.x * next.y - next.x * current.y))

\* Polygon::area, in units of 1 / Scale^2
area(vs) ==
    IF Len(vs) < 3 THEN Frac(0, 1)
    ELSE Frac(Abs(AreaSum(vs, 1, 0)), 2)

\* The ray test of Polygon::contains_point for the edge vi-vj:
\*   ((vi.y > p.y) != (vj.y > p.y)) &&
\*   (p.x < (vj.x - vi.x) * (p.y - vi.y) / (vj.y - vi.y) + vi.x)
\* The quotient is compared exactly by cross-multiplication.
RayCrosses(vi, vj, p) ==
    /\ (vi.y > p.y) # (vj.y > p.y)
    /\ LET num == (vj.x - vi.x) * (p.y - vi.y)
           den == vj.y - vi.y
       IN IF den > 0 THEN (p.x - vi.x) * den < num
                     ELSE (p.x - vi.x) * den > num

\* The loop of Polygon::contains_point from index i (1-based) with the
\* previous index j and the parity accumulated so far.
RECURSIVE ContainsLoop(_, _, _, _, _, _)
ContainsLoop(vs, p, include_boundary, i, j, inside) ==
    IF i > Len(vs) THEN inside
    ELSE LET vi == vs[i]
             vj == vs[j]
         IN IF include_boundary /\ LineContains(vi, vj, p) THEN TRUE
            ELSE ContainsLoop(vs, p, include_boundary, i + 1, i,
                              IF RayCrosses(vi, vj, p) THEN ~inside ELSE inside)

\* A plausible slip: j starts at the first vertex, not the last, so the
\* closing edge from the last vertex to the first is never examined.
contains_point_open(vs, p, include_boundary) ==
    IF Len(vs) < 3 THEN FALSE
    ELSE ContainsLoop(vs, p, include_boundary, 1, 1, FALSE)

\* Polygon::contains_point
contains_point(vs, p, include_boundary) ==
    IF Len(vs) < 3 THEN FALSE
    ELSE ContainsLoop(vs, p, include_boundary, 1, Len(vs), FALSE)

\* z-component of the cross product of the successive edges p1p2, p2p3
CrossZ(p1, p2, p3) ==
    (p2.x - p1.x) * (p3.y - p2.y) - (p2.y - p1.y) * (p3.x - p2.x)

\* The loop of Polygon::is_convex from index i (1-based)
RECURSIVE IsConvexLoop(_, _, _, _)
IsConvexLoop(vs, i, sign, sign_set) ==
    IF i > Len(vs) THEN TRUE
    ELSE LET p1 == vs[i]
             p2 == vs[NextIdx(vs, i)]
             p3 == vs[NextIdx(vs, NextIdx(vs, i))]
             cross_z == CrossZ(p1, p2, p3)
         IN IF ~sign_set THEN IsConvexLoop(vs, i + 1, cross_z > 0, TRUE)
            ELSE IF (cross_z > 0) # sign THEN FALSE
            ELSE IsConvexLoop(vs, i + 1, sign, sign_set)

\* Polygon::is_convex
is_convex(vs) ==
    IF Len(vs) < 3 THEN FALSE
    ELSE IsConvexLoop(vs, 1, FALSE, FALSE)

(***************************************************************************)
(* Polygon::convex_hull (Graham scan)                                      *)
(***************************************************************************)
\* A plausible slip: the pivot search without the comparison of x among the
\* vertices of lowest y.
RECURSIVE MinIdxLoopLowestY(_, _, _)
MinIdxLoopLowestY(vs, i, min_idx) ==
    IF i > Len(vs) THEN min_idx
    ELSE IF vs[i].y < vs[min_idx].y
         THEN MinIdxLoopLowestY(vs, i + 1, i)
         ELSE MinIdxLoopLowestY(vs, i + 1, min_idx)

\* The pivot search: min_idx after examining vertices i .. size
RECURSIVE MinIdxLoop(_, _, _)
MinIdxLoop(vs, i, min_idx) ==
    IF i > Len(vs) THEN min_idx
    ELSE IF \/ vs[i].y < vs[min_idx].y
            \/ (vs[i].y = vs[min_idx].y /\ vs[i].x < vs[min_idx].x)
         THEN MinIdxLoop(vs, i + 1, i)
         ELSE MinIdxLoop(vs, i + 1, min_idx)

\* std::swap(points[0], points[min_idx])
SwapFirst(vs, min_idx) ==
    [k \in 1..Len(vs) |-> IF k = 1 THEN vs[min_idx]
                          ELSE IF k = min_idx THEN vs[1]
                          ELSE vs[k]]

\* std::atan2(dy, dx) takes values in (-pi, pi].  Its order is the order of
\* the direction of (dx, dy): the class of the direction first
\*   0: dy < 0            angle in (-pi, 0)
\*   1: dy = 0, dx >= 0   angle 0 (atan2(0, 0) is 0)
\*   2: dy > 0            angle in (0, pi)
\*   3: dy = 0, dx < 0    angle pi
\* and the sign of the cross product inside class 0 and inside class 2.
\* Two directions of the lattice that differ are more than 1e-6 apart, and
\* two equal directions give angles less than 1e-6 apart, so
\* std::abs(angle_a - angle_b) < 1e-6f is equality of direction.
AngleClass(dx, dy) ==
    IF dy < 0 THEN 0
    ELSE IF dy = 0 /\ dx >= 0 THEN 1
    ELSE IF dy > 0 THEN 2
    ELSE 3

\* -1, 0, 1 as angle_a is less than, within 1e-6 of, greater than angle_b
AngleCmp(p0, a, b) ==
    LET ax == a.x - p0.x
        ay == a.y - p0.y
        bx == b.x - p0.x
        by == b.y - p0.y
        ca == AngleClass(ax, ay)
        cb == AngleClass(bx, by)
        cr == ax * by - ay * bx
    IN IF ca < cb THEN -1
       ELSE IF ca > cb THEN 1
       ELSE IF ca \in {1, 3} THEN 0
       ELSE IF cr > 0 THEN -1
       ELSE IF cr < 0 THEN 1
       ELSE 0

\* A plausible slip: equal angles ordered farthest first.
HullLessFarFirst(p0, a, b) ==
    IF AngleCmp(p0, a, b) = 0
    THEN FLess(distance_to_squared(p0, b), distance_to_squared(p0, a))
    ELSE AngleCmp(p0, a, b) = -1

\* The comparison lambda of the sort: a before b
HullLess(p0, a, b) ==
    IF AngleCmp(p0, a, b) = 0
    THEN FLess(distance_to_squared(p0, a), distance_to_squared(p0, b))
    ELSE AngleCmp(p0, a, b) = -1

\* std::sort with that comparison.  Two vertices neither of which is before
\* the other have the same direction and distance from p0, so they are the
\* same point: the sorted order is unique.
RECURSIVE SortInsert(_, _, _)
SortInsert(p0, sorted, a) ==
    IF sorted = <<>> THEN <<a>>
    ELSE IF HullLess(p0, a, Head(sorted)) THEN <<a>> \o sorted
    ELSE <<Head(sorted)>> \o SortInsert(p0, Tail(sorted), a)

RECURSIVE SortPoints(_, _)
SortPoints(p0, s) ==
    IF s = <<>> THEN <<>>
    ELSE SortInsert(p0, SortPoints(p0, Tail(s)), Head(s))

\* A plausible slip: `if` in place of `while`, so at most one vertex is popped
\* for each candidate.
PopOnce(hull, p3) ==
    IF Len(hull) > 1 /\ CrossZ(hull[Len(hull) - 1], hull[Len(hull)], p3) <= 0
    THEN SubSeq(hull, 1, Len(hull) - 1)
    ELSE hull

\* A plausible slip: `<` in place of `<=`, so collinear vertices stay.
RECURSIVE PopWhileRightTurn(_, _)
PopWhileRightTurn(hull, p3) ==
    IF Len(hull) > 1 /\ CrossZ(hull[Len(hull) - 1], hull[Len(hull)], p3) < 0
    THEN PopWhileRightTurn(SubSeq(hull, 1, Len(hull) - 1), p3)
    ELSE hull

\* The inner while loop of the scan: pop while the last two hull points and
\* the candidate p3 do not make a strict left turn.
RECURSIVE PopWhileNotLeft(_, _)
PopWhileNotLeft(hull, p3) ==
    IF Len(hull) > 1 /\ CrossZ(hull[Len(hull) - 1], hull[Len(hull)], p3) <= 0
    THEN PopWhileNotLeft(SubSeq(hull, 1, Len(hull) - 1), p3)
    ELSE hull

\* The for loop of the scan from index i (1-based) of the sorted points
RECURSIVE ScanLoop(_, _, _)
ScanLoop(points, i, hull) ==
    IF i > Len(points) THEN hull
    ELSE ScanLoop(points, i + 1, Append(PopWhileNotLeft(hull, points[i]), points[i]))

\* Polygon::convex_hull
convex_hull(vs) ==
    IF Len(vs) < 3 THEN vs
    ELSE LET min_idx == MinIdxLoop(vs, 2, 1)
             swapped == SwapFirst(vs, min_idx)
             p0 == swapped[1]
             points == <<p0>> \o SortPoints(p0, Tail(swapped))
         IN ScanLoop(points, 3, <<points[1], points[2]>>)

(***************************************************************************)
(* The polygon as a state machine                                          *)
(***************************************************************************)
Origin == Point(0, 0, 0)

Init ==
    /\ vertices = <<>>
    /\ plane = None
    /\ this = Origin
    /\ start = Origin
    /\ end = Origin
    /\ op = "init"
    /\ arg = None
    /\ ret = None

\* Polygon::add_vertex, while the polygon has fewer than bound vertices
AddVertex(p, bound) ==
    /\ Len(vertices) < bound
    /\ vertices' = Append(vertices, p)
    /\ UNCHANGED <<start, end, plane, this>>
    /\ op' = "add_vertex"
    /\ arg' = p
    /\ ret' = None

ConvexHull ==
    /\ op' = "convex_hull"
    /\ arg' = None
    /\ ret' = convex_hull(vertices)
    /\ UNCHANGED <<vertices, start, end, plane, this>>

Area ==
    /\ op' = "area"
    /\ arg' = None
    /\ ret' = area(vertices)
    /\ UNCHANGED <<vertices, start, end, plane, this>>

ContainsPoint(p, include_boundary) ==
    /\ op' = "contains_point"
    /\ arg' = [point |-> p, include_boundary |-> include_boundary]
    /\ ret' = contains_point(vertices, p, include_boundary)
    /\ UNCHANGED <<vertices, start, end, plane, this>>

\* A polygon is built and its hull and area are taken.
Next ==
    \/ \E p \in PolyPoints : AddVertex(p, MaxVerts)
    \/ ConvexHull
    \/ Area

Spec == Init /\ [][Next]_vars

\* A polygon is built and points of the lattice are tested against it.
NextContains ==
    \/ \E p \in PolyPoints : AddVertex(p, MaxQueryVerts)
    \/ \E p \in PolyPoints, b \in BOOLEAN : ContainsPoint(p, b)

SpecContains == Init /\ [][NextContains]_vars

(***************************************************************************)
(* A segment and the operations on it                                      *)
(***************************************************************************)
\* The fine lattice: the points whose coordinates are 0 .. MaxFine times
\* 1 / Scale (z: 0 or 1 / Scale)
FinePoints == { Point(i, j, k) : i \in 0..MaxFine, j \in 0..MaxFine, k \in 0..1 }

\* Line(start, end)
InitLine ==
    /\ vertices = <<>>
    /\ plane = None
    /\ this = Origin
    /\ start \in FinePoints
    /\ end \in FinePoints
    /\ op = "Line"
    /\ arg = None
    /\ ret = None

Project(p) ==
    /\ op' = "project"
    /\ arg' = p
    /\ ret' = project(start, end, p)
    /\ UNCHANGED <<vertices, start, end, plane, this>>

Reflect(p) ==
    /\ op' = "reflect"
    /\ arg' = p
    /\ ret' = reflect(start, end, p)
    /\ UNCHANGED <<vertices, start, end, plane, this>>

NextLine ==
    \/ \E p \in FinePoints : Project(p)
    \/ \E p \in FinePoints : Reflect(p)

SpecLine == InitLine /\ [][NextLine]_vars

\* The end points of the segments that are tested for intersection: the
\* fine lattice and the whole-number lattice, in the xy-plane
IntersectsCoords == (0..MaxFine) \cup { Scale * k : k \in 0..MaxCoord }
IntersectsEndPoints == { Point(i, j, 0) : i \in IntersectsCoords, j \in IntersectsCoords }

\* Two segments: Line(start, end) and the other, the argument
InitIntersects ==
    /\ vertices = <<>>
    /\ plane = None
    /\ this = Origin
    /\ start \in IntersectsEndPoints
    /\ end \in IntersectsEndPoints
    /\ op = "Line"
    /\ arg \in [start : IntersectsEndPoints, end : IntersectsEndPoints]
    /\ ret = None

Intersects ==
    /\ op' = "intersects"
    /\ ret' = intersects(start, end, arg)
    /\ UNCHANGED <<vertices, start, end, plane, this, arg>>

NextIntersects == Intersects

SpecIntersects == InitIntersects /\ [][NextIntersects]_vars

(***************************************************************************)
(* Vectors near zero.  Here a coordinate c stands for c * 1e-6 / TinyDiv,  *)
(* so that a vector is shorter than 1e-6 when the sum of the squares of    *)
(* its coordinates is less than TinyDiv^2.                                 *)
(***************************************************************************)
TinyPoints == { Point(i, j, k) : i \in 0..MaxTiny, j \in 0..MaxTiny, k \in 0..MaxTiny }

InitPoint ==
    /\ vertices = <<>>
    /\ plane = None
    /\ this = Origin
    /\ start \in TinyPoints
    /\ end \in TinyPoints
    /\ op = "Line"
    /\ arg = None
    /\ ret = None

Normalized(v) ==
    /\ op' = "normalized"
    /\ arg' = v
    /\ ret' = normalized(v)
    /\ UNCHANGED <<vertices, start, end, plane, this>>

Direction ==
    /\ op' = "direction"
    /\ arg' = None
    /\ ret' = direction(start, end)
    /\ UNCHANGED <<vertices, start, end, plane, this>>

NextPoint ==
    \/ \E v \in TinyPoints : Normalized(v)
    \/ Direction

SpecPoint == InitPoint /\ [][NextPoint]_vars

(***************************************************************************)
(* A Point divided by a scalar.  The components are kept one by one, each  *)
(* a fraction, an infinity or NaN.  A double is a fraction or a subnormal: *)
(* a non-zero double so close to 0 that 1.0 / it overflows to an infinity. *)
(***************************************************************************)
\* sign * 2^-1074, the smallest doubles that are not 0
Subnormal(sign) == [num |-> sign, den |-> 1, subnormal |-> TRUE]
IsSubnormal(scalar) == scalar \in { Subnormal(1), Subnormal(-1) }

\* scalar == 0.0
IsZero(scalar) == ~IsSubnormal(scalar) /\ scalar.den # 0 /\ scalar.num = 0

\* 1.0 / scalar, in double
Reciprocal(scalar) ==
    IF IsSubnormal(scalar) THEN [num |-> scalar.num, den |-> 0]
    ELSE FDiv(Frac(1, 1), scalar)

\* The components x, y, z of a Point
Components(px, py, pz) == [x |-> px, y |-> py, z |-> pz]

\* Point::operator*=
MulAssign(p, scalar) ==
    Components(FMul(p.x, scalar), FMul(p.y, scalar), FMul(p.z, scalar))

\* Point::operator/=: the exception, or the new value of *this
DivAssign(p, scalar) ==
    IF IsZero(scalar) THEN RuntimeError
    ELSE MulAssign(p, Reciprocal(scalar))

\* The points and the scalars of the divisions
DivPoints ==
    { Components(Frac(i, 1), Frac(j, 1), Frac(k, 1)) :
          i \in 0..MaxFine, j \in 0..MaxFine, k \in 0..MaxFine }
DivScalars ==
    { Frac(n, d) : n \in (-MaxFine)..MaxFine, d \in 1..MaxFine }
        \cup { Subnormal(1), Subnormal(-1) }

\* Every component is a fraction of numerator and denominator up to
\* MaxDivTerm, an infinity or NaN: what keeps the set of quotients finite.
Bounded(p) ==
    \A c \in { p.x, p.y, p.z } : Abs(c.num) <= MaxDivTerm /\ c.den <= MaxDivTerm

InitDivide ==
    /\ vertices = <<>>
    /\ start = Origin
    /\ end = Origin
    /\ plane = None
    /\ this \in DivPoints
    /\ op = "Point"
    /\ arg = None
    /\ ret = None

\* p /= scalar
DivideAssign(scalar) ==
    LET res == DivAssign(this, scalar)
    IN /\ res # RuntimeError => Bounded(res)
       /\ op' = "operator/="
       /\ arg' = [receiver |-> this, scalar |-> scalar]
       /\ this' = IF res = RuntimeError THEN this ELSE res
       /\ ret' = res
       /\ UNCHANGED <<vertices, start, end, plane>>

\* p / scalar: operator/ takes p by value, so the caller's Point stays
Divide(scalar) ==
    LET res == DivAssign(this, scalar)
    IN /\ res # RuntimeError => Bounded(res)
       /\ op' = "operator/"
       /\ arg' = [receiver |-> this, scalar |-> scalar]
       /\ ret' = res
       /\ UNCHANGED <<vertices, start, end, plane, this>>

NextDivide ==
    \/ \E scalar \in DivScalars : DivideAssign(scalar)
    \/ \E scalar \in DivScalars : Divide(scalar)

SpecDivide == InitDivide /\ [][NextDivide]_vars

(***************************************************************************)
(* Plane                                                                   *)
(*                                                                         *)
(* The unit normal of a Plane is n / |n| for the vector n the constructor  *)
(* was given or derived.  |n| is a square root, so the model keeps the     *)
(* normal as the pair of n (dir) and |n|^2 (len_sq): the normal is         *)
(* dir / sqrt(len_sq), which does not depend on the unit dir is measured   *)
(* in.  A normal that is passed to a constructor, and the coefficients a,  *)
(* b, c, are measured in the unit of the near-zero lattice, 1e-6 /         *)
(* TinyDiv, so that some of them are shorter than 1e-6; points are         *)
(* measured in 1 / Scale as everywhere.                                    *)
(***************************************************************************)
\* throw std::invalid_argument(...)
InvalidArgument == [throws |-> "std::invalid_argument"]

\* A plane with the normal n / |n| through the point pt
MakePlane(n, pt) ==
    [normal |-> [dir |-> n, len_sq |-> magnitude_squared(n)], point |-> pt]

\* A plausible slip: the test of Point::normalized (magnitude == 0.0) where
\* the constructors test magnitude < 1e-6f.
TinyMagnitudeIsZero(n) == n.x = 0 /\ n.y = 0 /\ n.z = 0

\* magnitude < 1e-6f for a vector n of the near-zero lattice
TinyMagnitudeBelowEps(n) ==
    n.x * n.x + n.y * n.y + n.z * n.z < TinyDiv * TinyDiv

\* Plane::Plane(const Point& normal, const Point& point)
PlaneFromNormal(n, pt) ==
    IF TinyMagnitudeBelowEps(n) THEN InvalidArgument
    ELSE MakePlane(n, pt)

\* Plane::Plane(const Point& p1, const Point& p2, const Point& p3)
PlaneFromPoints(p1, p2, p3) ==
    LET v1 == Sub(p2, p1)
        v2 == Sub(p3, p1)
        n == cross_product(v1, v2)
    IN IF MagnitudeBelowEps(magnitude_squared(n)) THEN InvalidArgument
       ELSE MakePlane(n, p1)

\* std::abs(a) > 1e-6f for a coefficient a of the near-zero lattice
TinyAbove(a) == Abs(a) > TinyDiv

\* Plane::Plane(float a, float b, float c, float d).  d is measured in the
\* product of the two units, so that -d / a is a coordinate in 1 / Scale;
\* -d / 0 is an infinity or NaN, which the point then holds in the one
\* component that is not 0: the model keeps that point as the NaN point
\* when d = 0 and as the record of its infinite component otherwise.
PlaneFromCoefficients(a, b, c, d) ==
    LET n == Point(a, b, c)
        along(q, axis) ==
            IF q.den # 0
            THEN HPoint((IF axis = "x" THEN q.num ELSE 0),
                        (IF axis = "y" THEN q.num ELSE 0),
                        (IF axis = "z" THEN q.num ELSE 0), q.den)
            ELSE IF q.num = 0 THEN HPoint(0, 0, 0, 0)
            ELSE [infinite |-> axis, sign |-> q.num]
    IN IF TinyMagnitudeBelowEps(n) THEN InvalidArgument
       ELSE IF Abs(a) >= Abs(b) /\ Abs(a) >= Abs(c) /\ TinyAbove(a)
            THEN MakePlane(n, along(FDiv(Frac(-d, 1), Frac(a, 1)), "x"))
       ELSE IF Abs(b) >= Abs(a) /\ Abs(b) >= Abs(c) /\ TinyAbove(b)
            THEN MakePlane(n, along(FDiv(Frac(-d, 1), Frac(b, 1)), "y"))
       ELSE MakePlane(n, along(FDiv(Frac(-d, 1), Frac(c, 1)), "z"))

\* The arguments of the constructors
TinyVectors ==
    { Point(i, j, k) : i \in (-MaxTiny)..MaxTiny, j \in 0..MaxTiny, k \in 0..MaxTiny }
CtorPoints == { Point(i, j, k) : i \in 0..MaxFine, j \in 0..1, k \in 0..1 }

InitPlaneCtor ==
    /\ vertices = <<>>
    /\ start = Origin
    /\ end = Origin
    /\ plane = None
    /\ this = Origin
    /\ op = "init"
    /\ arg = None
    /\ ret = None

\* A constructor that throws constructs nothing: no Plane exists after it.
Construct(made, args) ==
    /\ arg' = args
    /\ ret' = (IF made = InvalidArgument THEN made ELSE None)
    /\ plane' = (IF made = InvalidArgument THEN None ELSE made)
    /\ UNCHANGED <<vertices, start, end, this>>

NewPlaneFromNormal(n, pt) ==
    /\ op' = "Plane(normal, point)"
    /\ Construct(PlaneFromNormal(n, pt), <<n, pt>>)

NewPlaneFromPoints(p1, p2, p3) ==
    /\ op' = "Plane(p1, p2, p3)"
    /\ Construct(PlaneFromPoints(p1, p2, p3), <<p1, p2, p3>>)

NewPlaneFromCoefficients(a, b, c, d) ==
    /\ op' = "Plane(a, b, c, d)"
    /\ Construct(PlaneFromCoefficients(a, b, c, d), <<a, b, c, d>>)

NextPlaneCtor ==
    \/ \E n \in TinyVectors, pt \in CtorPoints : NewPlaneFromNormal(n, pt)
    \/ \E p1, p2, p3 \in CtorPoints : NewPlaneFromPoints(p1, p2, p3)
    \/ \E a \in (-MaxTiny)..MaxTiny, b, c \in 0..MaxTiny, d \in -1..1 :
          NewPlaneFromCoefficients(a, b, c, d)

SpecPlaneCtor == InitPlaneCtor /\ [][NextPlaneCtor]_vars

(***************************************************************************)
(* Operations of a Plane.  A scalar that is the dot product of the unit    *)
(* normal with a vector is q / sqrt(len_sq) for a fraction q: the model    *)
(* keeps it as that pair (a root).  The quotient of two roots over the     *)
(* same len_sq is the fraction of their q.                                 *)
(***************************************************************************)
Root(q, len_sq) == [q |-> q, len_sq |-> len_sq]

\* dot_product(normal, p) for the unit normal of a Plane
NormalDot(normal, p) == Root(dot_product(normal.dir, p), normal.len_sq)

\* Plane::d
Plane_d(pl) ==
    LET dot == NormalDot(pl.normal, pl.point)
    IN Root(Frac(-dot.q.num, dot.q.den), dot.len_sq)

\* Plane::signed_distance_to
signed_distance_to(pl, p) ==
    LET dot == NormalDot(pl.normal, p)
    IN Root(FAdd(dot.q, Plane_d(pl).q), dot.len_sq)

\* sq * EpsInv^2 < units for a fraction sq >= 0, computed by two floor
\* divisions so that no product leaves the integers of the model checker:
\* the square of a quantity measured in 1 / sqrt(units) is below 1e-6^2.
SquareBelowEps(sq, units) ==
    IF sq.den = 0 THEN FALSE
    ELSE IF sq.num = 0 THEN TRUE
    ELSE LET b == sq.den * units
             q1 == b \div EpsInv
             q2 == q1 \div EpsInv
         IN \/ sq.num < q2
            \/ (sq.num = q2 /\ (b % EpsInv # 0 \/ q1 % EpsInv # 0))

\* std::abs(r) < 1e-6f for a root r that is a length (units of 1 / Scale)
RootBelowEps(r) ==
    SquareBelowEps(FDiv(FMul(r.q, r.q), r.len_sq), Scale * Scale)

\* Plane::intersects(const Line& line)
PlaneIntersects(pl, line) ==
    LET line_dir == Sub(line.end, line.start)
        dot == NormalDot(pl.normal, line_dir)
    IN IF RootBelowEps(dot)
       THEN RootBelowEps(signed_distance_to(pl, line.start))
       ELSE TRUE

\* A plausible slip: the parameter is clamped to the segment as in
\* Line::project.
IntersectionClamped(pl, line) ==
    LET line_dir == Sub(line.end, line.start)
        dot == NormalDot(pl.normal, line_dir)
        sd == signed_distance_to(pl, line.start)
        t == FDiv(Frac(-sd.q.num, sd.q.den), dot.q)
    IN IF RootBelowEps(dot) THEN None
       ELSE IF FLeq(t, Frac(0, 1)) THEN line.start
       ELSE IF FLeq(Frac(1, 1), t) THEN line.end
       ELSE Add(line.start, Mul(line_dir, t))

\* Plane::intersection_with(const Line& line): std::nullopt is None
intersection_with(pl, line) ==
    LET line_dir == Sub(line.end, line.start)
        dot == NormalDot(pl.normal, line_dir)
        sd == signed_distance_to(pl, line.start)
        t == FDiv(Frac(-sd.q.num, sd.q.den), dot.q)
    IN IF RootBelowEps(dot) THEN None
       ELSE Add(line.start, Mul(line_dir, t))

\* The planes: through three points of the cube 0 .. MaxPlaneCoord
CubePoints ==
    { Point(i, j, k) : i \in 0..MaxPlaneCoord, j \in 0..MaxPlaneCoord,
                       k \in 0..MaxPlaneCoord }
Planes ==
    { PlaneFromPoints(p1, p2, p3) : p1 \in CubePoints, p2 \in CubePoints,
                                    p3 \in CubePoints } \ { InvalidArgument }

\* The end points of the segments: the cube, and the points (1, 1, -1) and
\* (1, 1, 3) of the whole-number lattice
SegmentEndPoints ==
    CubePoints \cup { Point(Scale, Scale, -Scale), Point(Scale, Scale, 3 * Scale) }
Segments == [start : SegmentEndPoints, end : SegmentEndPoints]

InitPlane ==
    /\ vertices = <<>>
    /\ start = Origin
    /\ end = Origin
    /\ plane \in Planes
    /\ this = Origin
    /\ op = "Plane"
    /\ arg = None
    /\ ret = None

IntersectionWith(line) ==
    /\ op' = "intersection_with"
    /\ arg' = line
    /\ ret' = intersection_with(plane, line)
    /\ UNCHANGED <<vertices, start, end, plane, this>>

Intersects_Plane(line) ==
    /\ op' = "intersects"
    /\ arg' = line
    /\ ret' = PlaneIntersects(plane, line)
    /\ UNCHANGED <<vertices, start, end, plane, this>>

NextPlane ==
    \/ \E line \in Segments : IntersectionWith(line)
    \/ \E line \in Segments : Intersects_Plane(line)

SpecPlane == InitPlane /\ [][NextPlane]_vars

(***************************************************************************)
(* utils: the intersections of planes.  The coefficients a, b, c, d of a   *)
(* plane are those of its unit normal and its d(), all over the same       *)
(* sqrt(len_sq).  Each determinant below is a sum of products with one     *)
(* factor from each plane, so it is the determinant of the rows (dir, q of *)
(* d) over the square root of the product of the len_sq, and the quotient  *)
(* of two of them is the quotient of the determinants of the rows.         *)
(***************************************************************************)
\* The row a, b, c, d of a plane, times sqrt(len_sq)
Row(pl) ==
    [a |-> pl.normal.dir.x, b |-> pl.normal.dir.y, c |-> pl.normal.dir.z,
     d |-> Plane_d(pl).q.num]

\* Plane::is_parallel_to(other, epsilon = 1e-6f)
is_parallel_to(pl, other) ==
    LET cross == cross_product(pl.normal.dir, other.normal.dir)
        msq == FDiv(magnitude_squared(cross),
                    FMul(pl.normal.len_sq, other.normal.len_sq))
    IN SquareBelowEps(msq, 1)

\* std::abs(det) < 1e-6f for a determinant det of rows, over the square
\* root of the product len_sq of their len_sq
DetBelowEps(det, len_sq) ==
    SquareBelowEps(FDiv(Frac(det * det, 1), len_sq), 1)

\* A plausible slip: a sign of Cramer's rule (the first term of x enters
\* with + for -).
CramerWrongSign(r1, r2, r3) ==
    [x |-> r1.d * (r2.b * r3.c - r3.b * r2.c) + r1.b * (r2.d * r3.c - r3.d * r2.c)
               - r1.c * (r2.d * r3.b - r3.d * r2.b),
     y |-> -r1.a * (r2.d * r3.c - r3.d * r2.c) + r1.d * (r2.a * r3.c - r3.a * r2.c)
               - r1.c * (r2.a * r3.d - r3.a * r2.d),
     z |-> -r1.a * (r2.b * r3.d - r3.b * r2.d) + r1.b * (r2.a * r3.d - r3.a * r2.d)
               - r1.d * (r2.a * r3.b - r3.a * r2.b)]

\* The numerators of x, y, z in intersection(Plane, Plane, Plane)
Cramer(r1, r2, r3) ==
    [x |-> -r1.d * (r2.b * r3.c - r3.b * r2.c) + r1.b * (r2.d * r3.c - r3.d * r2.c)
               - r1.c * (r2.d * r3.b - r3.d * r2.b),
     y |-> -r1.a * (r2.d * r3.c - r3.d * r2.c) + r1.d * (r2.a * r3.c - r3.a * r2.c)
               - r1.c * (r2.a * r3.d - r3.a * r2.d),
     z |-> -r1.a * (r2.b * r3.d - r3.b * r2.d) + r1.b * (r2.a * r3.d - r3.a * r2.d)
               - r1.d * (r2.a * r3.b - r3.a * r2.b)]

\* intersection(const Plane&, const Plane&, const Plane&)
intersection3(plane1, plane2, plane3) ==
    IF \/ is_parallel_to(plane1, plane2)
       \/ is_parallel_to(plane1, plane3)
       \/ is_parallel_to(plane2, plane3)
    THEN None
    ELSE LET r1 == Row(plane1)
             r2 == Row(plane2)
             r3 == Row(plane3)
             det == r1.a * (r2.b * r3.c - r3.b * r2.c)
                        - r1.b * (r2.a * r3.c - r3.a * r2.c)
                        + r1.c * (r2.a * r3.b - r3.a * r2.b)
             len_sq == FMul(plane1.normal.len_sq,
                            FMul(plane2.normal.len_sq, plane3.normal.len_sq))
             num == Cramer(r1, r2, r3)
         IN IF DetBelowEps(det, len_sq) THEN None
            ELSE HPoint(num.x, num.y, num.z, det)

\* The point of intersection(Plane, Plane) for the two coordinates that
\* are solved for: a, b are the coefficients of the two, c is -d().
\* The result is the pair of the two coordinates, or (0, 0) with den = 1
\* when the determinant is near zero.
Solve2(a1, b1, c1, a2, b2, c2, len_sq) ==
    LET det == a1 * b2 - a2 * b1
    IN IF DetBelowEps(det, len_sq) THEN [u |-> 0, v |-> 0, den |-> 1]
       ELSE [u |-> c1 * b2 - c2 * b1, v |-> a1 * c2 - a2 * c1, den |-> det]

\* intersection(const Plane&, const Plane&): std::nullopt is None; the
\* Line(point, point + direction) is kept as its start and the unit vector
\* direction, which is cross / |cross|.
intersection2(plane1, plane2) ==
    IF is_parallel_to(plane1, plane2) THEN None
    ELSE LET cross == cross_product(plane1.normal.dir, plane2.normal.dir)
             r1 == Row(plane1)
             r2 == Row(plane2)
             len_sq == FMul(plane1.normal.len_sq, plane2.normal.len_sq)
             point ==
                 IF Abs(cross.x) <= Abs(cross.y) /\ Abs(cross.x) <= Abs(cross.z)
                 THEN LET yz == Solve2(r1.b, r1.c, -r1.d, r2.b, r2.c, -r2.d, len_sq)
                      IN HPoint(0, yz.u, yz.v, yz.den)
                 ELSE IF Abs(cross.y) <= Abs(cross.x) /\ Abs(cross.y) <= Abs(cross.z)
                 THEN LET xz == Solve2(r1.a, r1.c, -r1.d, r2.a, r2.c, -r2.d, len_sq)
                      IN HPoint(xz.u, 0, xz.v, xz.den)
                 ELSE LET xy == Solve2(r1.a, r1.b, -r1.d, r2.a, r2.b, -r2.d, len_sq)
                      IN HPoint(xy.u, xy.v, 0, xy.den)
         IN [start |-> point, direction |-> normalized(cross)]

\* The planes of the intersections: normals of the near-zero lattice that
\* are no shorter than 1e-6, through a few points
UtilNormals ==
    { Point(TinyDiv * i, TinyDiv * j, TinyDiv * k) :
          i \in 0..MaxUtilCoord, j \in 0..MaxUtilCoord, k \in 0..MaxUtilCoord }
        \ { Point(0, 0, 0) }
UtilPoints == { Point(i, i, i) : i \in 0..MaxUtilCoord }
UtilPlanes == { PlaneFromNormal(n, pt) : n \in UtilNormals, pt \in UtilPoints }

InitPlanes ==
    /\ vertices = <<>>
    /\ start = Origin
    /\ end = Origin
    /\ plane \in UtilPlanes
    /\ this = Origin
    /\ op = "Plane"
    /\ arg = None
    /\ ret = None

Intersection2(plane2) ==
    /\ op' = "intersection(Plane, Plane)"
    /\ arg' = <<plane2>>
    /\ ret' = intersection2(plane, plane2)
    /\ UNCHANGED <<vertices, start, end, plane, this>>

Intersection3(plane2, plane3) ==
    /\ op' = "intersection(Plane, Plane, Plane)"
    /\ arg' = <<plane2, plane3>>
    /\ ret' = intersection3(plane, plane2, plane3)
    /\ UNCHANGED <<vertices, start, end, plane, this>>

NextPlanes ==
    \/ \E plane2 \in UtilPlanes : Intersection2(plane2)
    \/ \E plane2, plane3 \in UtilPlanes : Intersection3(plane2, plane3)

SpecPlanes == InitPlanes /\ [][NextPlanes]_vars

(***************************************************************************)
(* utils: intersection of two lines                                        *)
(***************************************************************************)
\* An exception that leaves a function declared noexcept: std::terminate
Terminate == [throws |-> "std::terminate"]

\* intersection(const Line& line1, const Line& line2) noexcept.  dir1 and
\* dir2 are unit vectors d / sqrt(len_sq): cross_z is cz / sqrt(l1 l2) for
\* the differences d1, d2 of the end points, t1 is n sqrt(l1) / cz, and
\* dir1 * t1 is d1 * (n / cz).
intersection_line_line(line1, line2) ==
    LET dir1 == direction(line1.start, line1.end)
        dir2 == direction(line2.start, line2.end)
    IN IF dir1 = RuntimeError \/ dir2 = RuntimeError THEN Terminate
       ELSE LET d1 == dir1.dir
                d2 == dir2.dir
                cz == d1.x * d2.y - d1.y * d2.x
                cross_z_sq == FDiv(Frac(cz * cz, d1.w * d1.w * d2.w * d2.w),
                                   FMul(dir1.len_sq, dir2.len_sq))
                p1 == line1.start
                p2 == line2.start
                p12 == Sub(p2, p1)
                n == p12.x * d2.y - p12.y * d2.x
                t1 == Frac(n * d1.w, cz * p12.w)
            IN IF SquareBelowEps(cross_z_sq, 1) THEN None
               ELSE Add(p1, Mul(d1, t1))

\* The end points of the segments: whole coordinates 0 .. MaxLineCoord in
\* the plane z = 0, and for the first segment in the plane z = 1 as well
LinePoints ==
    { Point(Scale * i, Scale * j, 0) : i \in 0..MaxLineCoord, j \in 0..MaxLineCoord }
RaisedLinePoints ==
    LinePoints \cup { Point(p.x, p.y, Scale) : p \in LinePoints }

InitLines ==
    /\ vertices = <<>>
    /\ start \in RaisedLinePoints
    /\ end \in RaisedLinePoints
    /\ plane = None
    /\ this = Origin
    /\ op = "Line"
    /\ arg = None
    /\ ret = None

IntersectionLines(line2) ==
    /\ op' = "intersection(Line, Line)"
    /\ arg' = line2
    /\ ret' = intersection_line_line([start |-> start, end |-> end], line2)
    /\ UNCHANGED <<vertices, start, end, plane, this>>

NextLines == \E line2 \in [start : LinePoints, end : LinePoints] : IntersectionLines(line2)

SpecLines == InitLines /\ [][NextLines]_vars

(***************************************************************************)
(* Polygon: edges                                                          *)
(***************************************************************************)
\* A plausible slip: the loop stops before the closing edge.
RECURSIVE EdgesNoWrapLoop(_, _, _)
EdgesNoWrapLoop(vs, i, result) ==
    IF i >= Len(vs) THEN result
    ELSE EdgesNoWrapLoop(vs, i + 1,
                         Append(result, [start |-> vs[i], end |-> vs[NextIdx(vs, i)]]))

EdgesNoWrap(vs) ==
    IF Len(vs) < 2 THEN <<>> ELSE EdgesNoWrapLoop(vs, 1, <<>>)

\* The loop of Polygon::edges, for the 1-based index i:
\* result.emplace_back(vertices[i], vertices[(i + 1) % size])
RECURSIVE EdgesLoop(_, _, _)
EdgesLoop(vs, i, result) ==
    IF i > Len(vs) THEN result
    ELSE EdgesLoop(vs, i + 1,
                   Append(result, [start |-> vs[i], end |-> vs[NextIdx(vs, i)]]))

\* Polygon::edges
edges(vs) ==
    IF Len(vs) < 2 THEN <<>> ELSE EdgesLoop(vs, 1, <<>>)

Edges ==
    /\ op' = "edges"
    /\ arg' = None
    /\ ret' = edges(vertices)
    /\ UNCHANGED <<vertices, start, end, plane, this>>

\* A polygon is built and its edges are taken.
NextEdges ==
    \/ \E p \in PolyPoints : AddVertex(p, MaxQueryVerts)
    \/ Edges

SpecEdges == Init /\ [][NextEdges]_vars

(***************************************************************************)
(* Polygon: the hull of the demonstration and of built polygons            *)
(***************************************************************************)
\* random_points of demo_polygons
random_points ==
    << Point(3 * Scale, Scale, 0), Point(Scale, Scale, 0),
       Point(2 * Scale, 2 * Scale, 0), Point(2 * Scale, 3 * Scale, 0),
       Point(3 * Scale, 3 * Scale, 0), Point(4 * Scale, 2 * Scale, 0) >>

\* Polygon(): no vertices, or Polygon random_poly(random_points)
InitHull ==
    /\ vertices \in { <<>>, random_points }
    /\ plane = None
    /\ this = Origin
    /\ start = Origin
    /\ end = Origin
    /\ op = "init"
    /\ arg = None
    /\ ret = None

\* A polygon is built, or is that of the demonstration, and its hull is
\* taken.
NextHull ==
    \/ \E p \in PolyPoints : AddVertex(p, MaxVerts)
    \/ ConvexHull

SpecHull == InitHull /\ [][NextHull]_vars

(***************************************************************************)
(* Polygon::centroid                                                       *)
(***************************************************************************)
\* |a|
FAbs(a) == [num |-> Abs(a.num), den |-> a.den]

\* The value of a coordinate: c / w in units of 1 / Scale
Value(c, w) == Frac(c, w * Scale)

\* Point(x, y, z) for three values
PointOfValues(x, y, z) ==
    HPoint(Scale * x.num * y.den * z.den, Scale * y.num * x.den * z.den,
           Scale * z.num * x.den * y.den, x.den * y.den * z.den)

\* The first loop of Polygon::centroid from the 1-based index i: acc is
\* area_sum and centroid.x, centroid.y
RECURSIVE CentroidLoop(_, _, _)
CentroidLoop(vs, i, acc) ==
    IF i > Len(vs) THEN acc
    ELSE LET current == vs[i]
             next == vs[NextIdx(vs, i)]
             cx == Value(current.x, current.w)
             cy == Value(current.y, current.w)
             nx == Value(next.x, next.w)
             ny == Value(next.y, next.w)
             area_i == FMul(FAdd(FMul(cx, ny), FMul(Frac(-1, 1), FMul(nx, cy))),
                            Frac(1, 2))
         IN CentroidLoop(vs, i + 1,
                [area_sum |-> FAdd(acc.area_sum, area_i),
                 x |-> FAdd(acc.x, FDiv(FMul(FAdd(cx, nx), area_i), Frac(3, 1))),
                 y |-> FAdd(acc.y, FDiv(FMul(FAdd(cy, ny), area_i), Frac(3, 1)))])

\* The second loop: v / size is added to the centroid c for the vertices
\* from index i
RECURSIVE AverageLoop(_, _, _)
AverageLoop(vs, i, c) ==
    IF i > Len(vs) THEN c
    ELSE LET v == vs[i]
             size == Frac(Len(vs), 1)
         IN AverageLoop(vs, i + 1,
                [x |-> FAdd(c.x, FDiv(Value(v.x, v.w), size)),
                 y |-> FAdd(c.y, FDiv(Value(v.y, v.w), size)),
                 z |-> FAdd(c.z, FDiv(Value(v.z, v.w), size))])

\* Polygon::centroid
centroid(vs) ==
    IF Len(vs) = 0 THEN RuntimeError
    ELSE IF Len(vs) = 1 THEN vs[1]
    ELSE IF Len(vs) = 2
    THEN PointOfValues(
             FMul(FAdd(Value(vs[1].x, vs[1].w), Value(vs[2].x, vs[2].w)), Frac(1, 2)),
             FMul(FAdd(Value(vs[1].y, vs[1].w), Value(vs[2].y, vs[2].w)), Frac(1, 2)),
             FMul(FAdd(Value(vs[1].z, vs[1].w), Value(vs[2].z, vs[2].w)), Frac(1, 2)))
    ELSE LET acc == CentroidLoop(vs, 1, [area_sum |-> Frac(0, 1), x |-> Frac(0, 1),
                                         y |-> Frac(0, 1)])
         IN IF FLess(FAbs(acc.area_sum), Frac(1, EpsInv))
            THEN LET c == AverageLoop(vs, 1, [x |-> acc.x, y |-> acc.y, z |-> Frac(0, 1)])
                 IN PointOfValues(c.x, c.y, c.z)
            ELSE PointOfValues(FDiv(acc.x, acc.area_sum), FDiv(acc.y, acc.area_sum),
                               Frac(0, 1))

Centroid ==
    /\ op' = "centroid"
    /\ arg' = None
    /\ ret' = centroid(vertices)
    /\ UNCHANGED <<vertices, start, end, plane, this>>

\* A polygon is built and its centroid is taken.
NextCentroid ==
    \/ \E p \in PolyPoints : AddVertex(p, MaxQueryVerts)
    \/ Centroid

SpecCentroid == Init /\ [][NextCentroid]_vars

(***************************************************************************)
(* Polygon: is_convex as an operation                                      *)
(***************************************************************************)
IsConvex ==
    /\ op' = "is_convex"
    /\ arg' = None
    /\ ret' = is_convex(vertices)
    /\ UNCHANGED <<vertices, start, end, plane, this>>

\* A polygon is built and tested for convexity.
NextConvex ==
    \/ \E p \in PolyPoints : AddVertex(p, MaxQueryVerts)
    \/ IsConvex

SpecConvex == Init /\ [][NextConvex]_vars

(***************************************************************************)
(* Plane: the constructor from coefficients, for coefficients on both      *)
(* sides of 1e-6 (in units of 1e-6 / TinyDiv)                              *)
(***************************************************************************)
Coefficients == (-MaxCoef)..MaxCoef

NextCoefficients ==
    \E a, b, c \in Coefficients, d \in -1..1 : NewPlaneFromCoefficients(a, b, c, d)

SpecCoefficients == InitPlaneCtor /\ [][NextCoefficients]_vars

(***************************************************************************)
(* Polygon::simplify                                                       *)
(***************************************************************************)
\* sqrt(msq) < epsilon for the squared magnitude msq of a cross product
\* (units of 1 / Scale^2) and an epsilon > 0 that is 1e-6f or a fraction of
\* small terms
MagnitudeBelow(msq, epsilon) ==
    IF epsilon = Frac(1, EpsInv) THEN MagnitudeBelowEps(msq)
    ELSE IF msq.den = 0 THEN FALSE
    ELSE msq.num * epsilon.den * epsilon.den
             < epsilon.num * epsilon.num * msq.den * Scale * Scale * Scale * Scale

\* Line::are_collinear(a, b, c, epsilon)
are_collinear_eps(a, b, c, epsilon) ==
    LET ab == Sub(b, a)
        ac == Sub(c, a)
    IN MagnitudeBelow(magnitude_squared(cross_product(ab, ac)), epsilon)

\* A plausible slip: prev is the vertex that was kept last, not the vertex
\* before curr.
RECURSIVE SimplifyLoopLastKept(_, _, _, _)
SimplifyLoopLastKept(vs, i, simplified, epsilon) ==
    IF i >= Len(vs) THEN simplified
    ELSE LET prev == simplified[Len(simplified)]
             curr == vs[i]
             next == vs[i + 1]
         IN SimplifyLoopLastKept(vs, i + 1,
                IF ~are_collinear_eps(prev, curr, next, epsilon)
                THEN Append(simplified, curr) ELSE simplified,
                epsilon)

\* The loop of Polygon::simplify from the 1-based index i, which runs to
\* the vertex before the last
RECURSIVE SimplifyLoop(_, _, _, _)
SimplifyLoop(vs, i, simplified, epsilon) ==
    IF i >= Len(vs) THEN simplified
    ELSE LET prev == vs[i - 1]
             curr == vs[i]
             next == vs[i + 1]
         IN SimplifyLoop(vs, i + 1,
                IF ~are_collinear_eps(prev, curr, next, epsilon)
                THEN Append(simplified, curr) ELSE simplified,
                epsilon)

\* Polygon::simplify(epsilon)
simplify(vs, epsilon) ==
    IF Len(vs) < 3 THEN vs
    ELSE Append(SimplifyLoop(vs, 2, <<vs[1]>>, epsilon), vs[Len(vs)])

\* The values of epsilon: the default 1e-6f, and 1.5
Epsilons == { Frac(1, EpsInv), Frac(3, 2) }

Simplify(epsilon) ==
    /\ op' = "simplify"
    /\ arg' = epsilon
    /\ ret' = simplify(vertices, epsilon)
    /\ UNCHANGED <<vertices, start, end, plane, this>>

\* A polygon is built and simplified.
NextSimplify ==
    \/ \E p \in PolyPoints : AddVertex(p, MaxVerts)
    \/ \E epsilon \in Epsilons : Simplify(epsilon)

SpecSimplify == Init /\ [][NextSimplify]_vars

(***************************************************************************)
(* The noexcept operations that take the direction of a segment            *)
(***************************************************************************)
\* distance(const Line& line1, const Line& line2) noexcept, squared.  The
\* cross product of the unit directions is that of the differences d1, d2
\* divided by sqrt(l1 l2), which cancels in the quotient that is returned.
distance_line_line(line1, line2) ==
    LET dir1 == direction(line1.start, line1.end)
        dir2 == direction(line2.start, line2.end)
    IN IF dir1 = RuntimeError \/ dir2 = RuntimeError THEN Terminate
       ELSE LET cross == cross_product(dir1.dir, dir2.dir)
                cross_magnitude_sq ==
                    FDiv(magnitude_squared(cross), FMul(dir1.len_sq, dir2.len_sq))
                connecting == Sub(line2.start, line1.start)
                triple == dot_product(connecting, cross)
            IN IF SquareBelowEps(cross_magnitude_sq, 1)
               THEN distance_to(line1.start, line1.end, line2.start)
               ELSE FDiv(FMul(triple, triple), magnitude_squared(cross))

\* Line::angle_with(other) noexcept for the segment s-e: the angle whose
\* cosine is |dot| clamped to [0, 1]; the model keeps the square of that
\* cosine (|dot| <= 1 for unit vectors, so the clamp changes nothing).
angle_with(s, e, other) ==
    LET dir1 == direction(s, e)
        dir2 == direction(other.start, other.end)
    IN IF dir1 = RuntimeError \/ dir2 = RuntimeError THEN Terminate
       ELSE LET dot == dot_product(dir1.dir, dir2.dir)
            IN [cos_sq |-> FDiv(FMul(dot, dot), FMul(dir1.len_sq, dir2.len_sq))]

\* Two segments between points of the cube
InitSegments ==
    /\ vertices = <<>>
    /\ start \in CubePoints
    /\ end \in CubePoints
    /\ plane = None
    /\ this = Origin
    /\ op = "Line"
    /\ arg = None
    /\ ret = None

DistanceLines(line2) ==
    /\ op' = "distance(Line, Line)"
    /\ arg' = line2
    /\ ret' = distance_line_line([start |-> start, end |-> end], line2)
    /\ UNCHANGED <<vertices, start, end, plane, this>>

AngleWith(other) ==
    /\ op' = "angle_with"
    /\ arg' = other
    /\ ret' = angle_with(start, end, other)
    /\ UNCHANGED <<vertices, start, end, plane, this>>

NextSegments ==
    \/ \E line2 \in [start : CubePoints, end : CubePoints] : DistanceLines(line2)
    \/ \E line2 \in [start : CubePoints, end : CubePoints] : IntersectionLines(line2)
    \/ \E other \in [start : CubePoints, end : CubePoints] : AngleWith(other)

SpecSegments == InitSegments /\ [][NextSegments]_vars

(***************************************************************************)
(* Polygon::intersects                                                     *)
(***************************************************************************)
\* A plausible slip: the loop over the vertices of the other polygon is
\* missing.
PolygonIntersectsOneWay(vs, other) ==
    LET this_edges == edges(vs)
        other_edges == edges(other)
    IN \/ \E i \in 1..Len(this_edges), j \in 1..Len(other_edges) :
             intersects(this_edges[i].start, this_edges[i].end, other_edges[j])
       \/ \E i \in 1..Len(vs) : contains_point(other, vs[i], TRUE)

\* Polygon::intersects(other) for the polygon of vertices vs: the three
\* loops return true at the first hit, and false is returned after them
polygon_intersects(vs, other) ==
    LET this_edges == edges(vs)
        other_edges == edges(other)
    IN \/ \E i \in 1..Len(this_edges), j \in 1..Len(other_edges) :
             intersects(this_edges[i].start, this_edges[i].end, other_edges[j])
       \/ \E i \in 1..Len(vs) : contains_point(other, vs[i], TRUE)
       \/ \E i \in 1..Len(other) : contains_point(vs, other[i], TRUE)

\* The vertices of the two polygons: the corners (0,0), (2,0), (1,2) of a
\* triangle, the point (1,1) inside it, the point (1,0) on one of its
\* edges and the point (2,2) outside it
PairPoints ==
    { Point(Scale * c[1], Scale * c[2], 0) :
        c \in { <<0, 0>>, <<2, 0>>, <<1, 2>>, <<1, 1>>, <<1, 0>>, <<2, 2>> } }

\* The polygons of up to n of these points
RECURSIVE PolygonsUpTo(_)
PolygonsUpTo(n) ==
    IF n = 0 THEN { <<>> }
    ELSE LET shorter == PolygonsUpTo(n - 1)
         IN shorter \cup { Append(vs, p) : vs \in { s \in shorter : Len(s) = n - 1 },
                                           p \in PairPoints }

PairPolygons == PolygonsUpTo(MaxPairVerts)

\* Two polygons: this one, and the other, the argument
InitPair ==
    /\ vertices \in PairPolygons
    /\ start = Origin
    /\ end = Origin
    /\ plane = None
    /\ this = Origin
    /\ op = "Polygon"
    /\ arg \in PairPolygons
    /\ ret = None

PolygonIntersects ==
    /\ op' = "intersects(Polygon)"
    /\ ret' = polygon_intersects(vertices, arg)
    /\ UNCHANGED <<vertices, start, end, plane, this, arg>>

NextPair == PolygonIntersects

SpecPair == InitPair /\ [][NextPair]_vars

(***************************************************************************)
(* Properties                                                              *)
(***************************************************************************)
SetOf(s) == { s[k] : k \in 1..Len(s) }

Rotate(s, k) == [n \in 1..Len(s) |-> s[((n + k - 1) % Len(s)) + 1]]

Reverse(s) == [n \in 1..Len(s) |-> s[Len(s) + 1 - n]]

\* C1: the convex hull is idempotent as a set of vertices: the hull of the
\* hull of a polygon has the vertices of the hull of that polygon.
C1_HullIdempotent ==
    op = "convex_hull" => SetOf(convex_hull(ret)) = SetOf(ret)

\* The hull of a polygon with a vertex that is no hull vertex was computed.
C1_Witness ==
    /\ op = "convex_hull"
    /\ Len(ret) >= 3
    /\ SetOf(ret) # SetOf(vertices)

RECURSIVE SumXY(_, _)
SumXY(vs, k) ==
    IF k > Len(vs) THEN 0
    ELSE vs[k].x * vs[NextIdx(vs, k)].y + SumXY(vs, k + 1)

RECURSIVE SumYX(_, _)
SumYX(vs, k) ==
    IF k > Len(vs) THEN 0
    ELSE vs[k].y * vs[NextIdx(vs, k)].x + SumYX(vs, k + 1)

\* C5: area() is half the absolute value of the shoelace sum for N >= 3 and
\* 0 for N < 3, and every cyclic rotation and the reversal of the vertex
\* list have the same area.
C5_AreaShoelace ==
    op = "area" =>
        /\ Len(vertices) >= 3 =>
              ret = Frac(Abs(SumXY(vertices, 1) - SumYX(vertices, 1)), 2)
        /\ Len(vertices) < 3 => ret = Frac(0, 1)
        /\ \A k \in 0..Len(vertices) : area(Rotate(vertices, k)) = ret
        /\ area(Reverse(vertices)) = ret

\* The area of a polygon of non-zero area with 4 distinct vertices was taken.
C5_Witness ==
    /\ op = "area"
    /\ Cardinality(SetOf(vertices)) >= 4
    /\ ret.num > 0

(***************************************************************************)
(* Plane geometry the properties are stated against (exact, in the         *)
(* xy-plane; none of it is code of the repository).                        *)
(***************************************************************************)
Cross2(u, v) == u.x * v.y - u.y * v.x
Dot2(u, v) == u.x * v.x + u.y * v.y

\* p is a point of the closed segment a-b
OnSegment(a, b, p) ==
    /\ Cross2(Sub(b, a), Sub(p, a)) = 0
    /\ Dot2(Sub(p, a), Sub(b, a)) >= 0
    /\ Dot2(Sub(p, a), Sub(b, a)) <= Dot2(Sub(b, a), Sub(b, a))

\* The closed segments a-b and c-d have a point in common: there are s, t
\* in [0, 1] with a + s (b - a) = c + t (d - c).
SegmentsMeet(a, b, c, d) ==
    LET d1 == Sub(b, a)
        d2 == Sub(d, c)
        den == Cross2(d1, d2)
        sn == Cross2(Sub(c, a), d2)
        tn == Cross2(Sub(c, a), d1)
    IN IF den > 0 THEN sn >= 0 /\ sn <= den /\ tn >= 0 /\ tn <= den
       ELSE IF den < 0 THEN sn <= 0 /\ sn >= den /\ tn <= 0 /\ tn >= den
       ELSE IF d1.x = 0 /\ d1.y = 0 THEN OnSegment(c, d, a)
       ELSE IF d2.x = 0 /\ d2.y = 0 THEN OnSegment(a, b, c)
       ELSE /\ Cross2(d1, Sub(c, a)) = 0
            /\ LET pc == Dot2(Sub(c, a), d1)
                   pd == Dot2(Sub(d, a), d1)
               IN Max(Min(pc, pd), 0) <= Min(Max(pc, pd), Dot2(d1, d1))

\* The polygon is simple: at least 3 vertices, all distinct, neighbouring
\* edges meet in their common vertex only, other edges do not meet.
IsSimple(vs) ==
    LET n == Len(vs)
    IN /\ n >= 3
       /\ \A i, j \in 1..n : i # j => vs[i] # vs[j]
       /\ \A i \in 1..n :
             /\ ~OnSegment(vs[i], vs[NextIdx(vs, i)], vs[NextIdx(vs, NextIdx(vs, i))])
             /\ ~OnSegment(vs[NextIdx(vs, i)], vs[NextIdx(vs, NextIdx(vs, i))], vs[i])
       /\ \A i, j \in 1..n :
             (i < j /\ NextIdx(vs, i) # j /\ NextIdx(vs, j) # i) =>
                 ~SegmentsMeet(vs[i], vs[NextIdx(vs, i)], vs[j], vs[NextIdx(vs, j)])

OnBoundary(vs, p) ==
    \E i \in 1..Len(vs) : OnSegment(vs[i], vs[NextIdx(vs, i)], p)

\* The winding number of the polygon around p (p not on the boundary),
\* counted over the edges k .. size: +1 for an upward edge with p on its
\* left, -1 for a downward edge with p on its right.
RECURSIVE Winding(_, _, _)
Winding(vs, p, k) ==
    IF k > Len(vs) THEN 0
    ELSE LET a == vs[k]
             b == vs[NextIdx(vs, k)]
             left == Cross2(Sub(b, a), Sub(p, a))
         IN (IF a.y <= p.y /\ b.y > p.y /\ left > 0 THEN 1
             ELSE IF a.y > p.y /\ b.y <= p.y /\ left < 0 THEN -1
             ELSE 0) + Winding(vs, p, k + 1)

StrictlyInside(vs, p) == ~OnBoundary(vs, p) /\ Winding(vs, p, 1) # 0

InClosedRegion(vs, p) == OnBoundary(vs, p) \/ Winding(vs, p, 1) # 0

\* C8: for a simple polygon, contains_point(p, include_boundary = true) is
\* true exactly for the points of the closed region: the points on an edge
\* and the points strictly inside.
C8_ContainsClosedRegion ==
    (op = "contains_point" /\ arg.include_boundary /\ IsSimple(vertices)) =>
        (ret = InClosedRegion(vertices, arg.point))

\* A point strictly inside a simple polygon of 4 vertices was tested with
\* include_boundary = true.
C8_Witness ==
    /\ op = "contains_point"
    /\ arg.include_boundary
    /\ Len(vertices) = 4
    /\ IsSimple(vertices)
    /\ StrictlyInside(vertices, arg.point)
    /\ ret = TRUE

\* C9 as stated: for a simple polygon, contains_point(p, include_boundary =
\* false) is false for every point on an edge or vertex and true for every
\* point strictly inside.
C9_BoundaryExcluded ==
    (op = "contains_point" /\ ~arg.include_boundary /\ IsSimple(vertices)) =>
        /\ OnBoundary(vertices, arg.point) => ret = FALSE
        /\ StrictlyInside(vertices, arg.point) => ret = TRUE

\* C4 as stated, for a Line: reflect is an involution for every segment
\* with start # end and every point p, also when p projects outside the
\* segment: reflect(reflect(p)) = p.
C4_ReflectInvolution ==
    (op = "reflect" /\ start # end) => reflect(start, end, ret) = arg

\* C6 as stated: project(p) lies on the segment, zero-length segments
\* included: contains(project(p)) is true and distance_to(project(p)) is 0.
C6_ProjectOnSegment ==
    op = "project" =>
        /\ LineContains(start, end, ret)
        /\ distance_to(start, end, ret) = Frac(0, 1)

\* C7 as stated: intersects is true exactly when the two closed segments
\* have a point in common, and the two directions of the call agree.
C7_IntersectsIffMeet ==
    op = "intersects" =>
        /\ ret = SegmentsMeet(start, end, arg.start, arg.end)
        /\ intersects(arg.start, arg.end, [start |-> start, end |-> end]) = ret

\* The vector of the near-zero lattice is shorter than 1e-6.
ShorterThanEps(v) == v.x * v.x + v.y * v.y + v.z * v.z < TinyDiv * TinyDiv

\* C10 as stated: normalized() fails whenever the magnitude is below 1e-6
\* and otherwise returns the vector of magnitude 1 in the same direction;
\* Line::direction() fails when start = end.
C10_NormalizedThreshold ==
    /\ op = "normalized" =>
          IF ShorterThanEps(arg) THEN ret = RuntimeError
          ELSE /\ ret # RuntimeError
               /\ ret.dir = arg
               /\ ret.len_sq = magnitude_squared(arg)
    /\ (op = "direction" /\ start = end) => ret = RuntimeError

\* x / s as real arithmetic rounded to float gives it: 0 for x = 0, an
\* infinity for another x over a subnormal, NaN for NaN.
Quotient(x, scalar) ==
    IF ~IsSubnormal(scalar) THEN FDiv(x, scalar)
    ELSE IF IsNaN(x) THEN NaN
    ELSE IF x.num = 0 THEN Frac(0, 1)
    ELSE [num |-> Sign(x.num) * scalar.num, den |-> 0]

\* C11 as stated: division of a Point by a scalar that is exactly zero fails
\* and leaves x, y, z of the receiver unchanged; division by any non-zero
\* scalar succeeds and yields (x / s, y / s, z / s).
C11_DivisionByScalar ==
    op \in { "operator/=", "operator/" } =>
        LET p == arg.receiver
            s == arg.scalar
            q == Components(Quotient(p.x, s), Quotient(p.y, s), Quotient(p.z, s))
        IN IF IsZero(s) THEN ret = RuntimeError /\ this = p
           ELSE /\ ret = q
                /\ this = (IF op = "operator/=" THEN q ELSE p)

\* The vectors u and v are parallel and point the same way.
SameDirection(u, v) ==
    /\ cross_product(u, v) = HPoint(0, 0, 0, 1)
    /\ dot_product(u, v).num > 0

\* The normal dir / sqrt(len_sq) is of length 1, hence not zero.
UnitLength(normal) ==
    /\ normal.len_sq.den # 0
    /\ normal.len_sq.num > 0
    /\ magnitude_squared(normal.dir) = normal.len_sq

\* C12: every Plane constructor rejects degenerate input with
\* invalid_argument and constructs nothing -- a normal shorter than 1e-6,
\* three points the cross product of whose differences is shorter than
\* 1e-6, coefficients (a, b, c) shorter than 1e-6 -- and every plane that
\* is constructed has a normal of length 1 parallel to the normal that was
\* supplied or derived.
C12_PlaneConstructors ==
    LET degenerate ==
            CASE op = "Plane(normal, point)" -> ShorterThanEps(arg[1])
              [] op = "Plane(p1, p2, p3)" ->
                    are_collinear(arg[1], arg[2], arg[3])
              [] op = "Plane(a, b, c, d)" ->
                    ShorterThanEps(Point(arg[1], arg[2], arg[3]))
        given ==
            CASE op = "Plane(normal, point)" -> arg[1]
              [] op = "Plane(p1, p2, p3)" ->
                    cross_product(Sub(arg[2], arg[1]), Sub(arg[3], arg[1]))
              [] op = "Plane(a, b, c, d)" -> Point(arg[1], arg[2], arg[3])
    IN op \in { "Plane(normal, point)", "Plane(p1, p2, p3)", "Plane(a, b, c, d)" } =>
           IF degenerate THEN ret = InvalidArgument /\ plane = None
           ELSE /\ ret = None
                /\ plane # None
                /\ UnitLength(plane.normal)
                /\ SameDirection(plane.normal.dir, given)

\* A plane was constructed from a normal that is not along an axis and is
\* no shorter than 1e-6.
C12_Witness ==
    /\ op = "Plane(normal, point)"
    /\ plane # None
    /\ arg[1].x # 0
    /\ arg[1].y # 0
    /\ ~ShorterThanEps(arg[1])

\* The point p is in the plane pl: (p - point) is orthogonal to the normal.
InPlane(pl, p) ==
    p.w # 0 /\ dot_product(pl.normal.dir, Sub(p, pl.point)) = Frac(0, 1)

\* The segment is parallel to the plane (or of length 0).
ParallelToPlane(pl, line) ==
    dot_product(pl.normal.dir, Sub(line.end, line.start)) = Frac(0, 1)

\* C13: intersection_with returns none when |normal . (end - start)| < 1e-6
\* (on the lattice: when the product is 0) and otherwise the point start +
\* t (end - start), t = -signed_distance_to(start) / (normal . (end -
\* start)), which is in the plane, for every t, not clamped to [0, 1]; the
\* XY plane and the segment (1, 1, -1)-(1, 1, 3) give (1, 1, 0).
C13_IntersectionWith ==
    op = "intersection_with" =>
        /\ IF ParallelToPlane(plane, arg) THEN ret = None
           ELSE LET dir == Sub(arg.end, arg.start)
                    num == dot_product(plane.normal.dir, Sub(arg.start, plane.point))
                    den == dot_product(plane.normal.dir, dir)
                    t == FDiv(Frac(-num.num, num.den), den)
                IN /\ ret = Add(arg.start, Mul(dir, t))
                   /\ InPlane(plane, ret)
        /\ ( /\ InPlane(plane, Origin)
             /\ plane.normal.dir.x = 0
             /\ plane.normal.dir.y = 0
             /\ arg = [start |-> Point(Scale, Scale, -Scale),
                       end |-> Point(Scale, Scale, 3 * Scale)] )
           => ret = Point(Scale, Scale, 0)

\* The point where the line through a segment meets the plane was computed
\* and is outside the segment.
C13_Witness ==
    /\ op = "intersection_with"
    /\ ret # None
    /\ ~LineContains(arg.start, arg.end, ret)
    /\ InPlane(plane, ret)

\* C14 as stated: intersection_with has a value exactly when intersects is
\* true, for every plane and segment, segments that lie in the plane
\* included.
C14_IntersectsIffValue ==
    op \in { "intersects", "intersection_with" } =>
        (PlaneIntersects(plane, arg) <=> intersection_with(plane, arg) # None)

\* The determinant of the three vectors
Det3(u, v, w) ==
    u.x * (v.y * w.z - v.z * w.y) - u.y * (v.x * w.z - v.z * w.x)
        + u.z * (v.x * w.y - v.y * w.x)

\* The vectors u and v are parallel.
Parallel(u, v) == cross_product(u, v) = HPoint(0, 0, 0, 1)

\* C15: the three-plane intersection returns none when two of the planes
\* are parallel or the determinant of the normals is near zero (on the
\* lattice: 0) and otherwise the point that is in each of the three
\* planes; the planes x = 0, y = 0, z = 0 give (0, 0, 0).
C15_ThreePlanes ==
    op = "intersection(Plane, Plane, Plane)" =>
        LET n1 == plane.normal.dir
            n2 == arg[1].normal.dir
            n3 == arg[2].normal.dir
        IN /\ IF Parallel(n1, n2) \/ Parallel(n1, n3) \/ Parallel(n2, n3)
                 \/ Det3(n1, n2, n3) = 0
              THEN ret = None
              ELSE /\ ret # None
                   /\ InPlane(plane, ret)
                   /\ InPlane(arg[1], ret)
                   /\ InPlane(arg[2], ret)
           /\ ( /\ InPlane(plane, Origin) /\ InPlane(arg[1], Origin)
                /\ InPlane(arg[2], Origin)
                /\ Parallel(n1, Point(1, 0, 0)) /\ Parallel(n2, Point(0, 1, 0))
                /\ Parallel(n3, Point(0, 0, 1)) )
              => ret = Origin

\* Three planes that meet in one point other than the origin, none of them
\* normal to an axis, were intersected.
C15_Witness ==
    /\ op = "intersection(Plane, Plane, Plane)"
    /\ ret # None
    /\ ret # Origin
    /\ \A pl \in { plane, arg[1], arg[2] } :
          Cardinality({ c \in { pl.normal.dir.x, pl.normal.dir.y, pl.normal.dir.z } : c # 0 }
                        \cup { 0 }) > 1
          /\ pl.normal.dir.x + pl.normal.dir.y + pl.normal.dir.z > TinyDiv

\* C16 as stated: the plane-plane intersection returns none when the planes
\* are parallel and otherwise a line whose direction is the normalized
\* cross product of the normals and whose start point is in both planes,
\* also for planes that do not pass through the origin.
C16_TwoPlanes ==
    op = "intersection(Plane, Plane)" =>
        IF Parallel(plane.normal.dir, arg[1].normal.dir) THEN ret = None
        ELSE /\ ret # None
             /\ SameDirection(ret.direction.dir,
                              cross_product(plane.normal.dir, arg[1].normal.dir))
             /\ UnitLength(ret.direction)
             /\ InPlane(plane, ret.start)
             /\ InPlane(arg[1], ret.start)

\* The xy-parts of u and v are parallel (the zero vector is parallel to all).
ParallelXY(u, v) == Cross2(u, v) = 0

\* p is, in xy, on the infinite line through the segment
OnLineXY(line, p) ==
    p.w # 0 /\ Cross2(Sub(line.end, line.start), Sub(p, line.start)) = 0

\* C17 as stated: the line-line intersection returns none when the
\* xy-directions of the two segments are parallel and otherwise the point
\* that is, in xy, on the infinite lines through both segments, whether or
\* not it is within either segment; (0,0)-(2,2) and (0,2)-(2,0) give (1,1).
C17_LineLine ==
    op = "intersection(Line, Line)" =>
        LET line1 == [start |-> start, end |-> end]
        IN /\ IF ParallelXY(Sub(end, start), Sub(arg.end, arg.start))
              THEN ret = None
              ELSE OnLineXY(line1, ret) /\ OnLineXY(arg, ret)
           /\ (/\ line1 = [start |-> Origin, end |-> Point(2 * Scale, 2 * Scale, 0)]
               /\ arg = [start |-> Point(0, 2 * Scale, 0), end |-> Point(2 * Scale, 0, 0)])
              => ret = Point(Scale, Scale, 0)

\* C18: add_vertex appends the point to the vertices and leaves the
\* vertices it found as they were, in their order, with no closing vertex;
\* edges() returns no edge for N < 2 vertices and for N >= 2 the N edges of
\* which the i-th runs from vertex i to vertex (i + 1) mod N (here: 1-based,
\* from vertices[i] to vertices[(i % N) + 1]), and leaves the vertices alone.
C18_VerticesAndEdges ==
    [][ /\ op' = "add_vertex" =>
             /\ Len(vertices') = Len(vertices) + 1
             /\ \A i \in 1..Len(vertices) : vertices'[i] = vertices[i]
             /\ vertices'[Len(vertices')] = arg'
        /\ op' = "edges" =>
             LET N == Len(vertices)
             IN /\ vertices' = vertices
                /\ IF N < 2 THEN ret' = <<>>
                   ELSE /\ Len(ret') = N
                        /\ \A i \in 1..N :
                              /\ ret'[i].start = vertices[i]
                              /\ ret'[i].end = vertices[(i % N) + 1]
      ]_vars

\* The edges of a polygon of three or more vertices were taken, the first
\* vertex was not added again at the end, and the last edge closes the
\* polygon.
C18_Witness ==
    /\ op = "edges"
    /\ Len(vertices) >= 3
    /\ vertices[Len(vertices)] # vertices[1]
    /\ Len(ret) = Len(vertices)
    /\ ret[Len(ret)] = [start |-> vertices[Len(vertices)], end |-> vertices[1]]

\* p is a point of the segment a-b other than a and b.
InsideEdge(a, b, p) == OnSegment(a, b, p) /\ p # a /\ p # b

RECURSIVE SumTo(_, _)
SumTo(f, n) == IF n = 0 THEN 0 ELSE f[n] + SumTo(f, n - 1)

\* Twice the signed area of the triangle of the origin and the edge from
\* vertex k
EdgeCross(vs, k) ==
    vs[k].x * vs[NextIdx(vs, k)].y - vs[NextIdx(vs, k)].x * vs[k].y

\* The centroid of the area of the polygon (signed area not 0):
\* sum of (x_k + x_k+1) cross_k / (3 sum of cross_k), and so for y
AreaCentroid(vs) ==
    LET n == Len(vs)
        a2 == SumTo([k \in 1..n |-> EdgeCross(vs, k)], n)
        sx == SumTo([k \in 1..n |-> (vs[k].x + vs[NextIdx(vs, k)].x) * EdgeCross(vs, k)], n)
        sy == SumTo([k \in 1..n |-> (vs[k].y + vs[NextIdx(vs, k)].y) * EdgeCross(vs, k)], n)
    IN HPoint(sx, sy, 0, 3 * a2)

\* The average of the vertices
VertexAverage(vs) ==
    LET n == Len(vs)
    IN HPoint(SumTo([k \in 1..n |-> vs[k].x], n), SumTo([k \in 1..n |-> vs[k].y], n),
              SumTo([k \in 1..n |-> vs[k].z], n), n)

\* C20 as stated: centroid() fails on 0 vertices, returns the vertex for 1
\* vertex and the midpoint for 2 vertices; for 3 or more vertices it
\* returns the centroid of the area when the signed area is not near zero
\* (on the lattice: not 0) and the average of the vertices when it is.
C20_Centroid ==
    op = "centroid" =>
        LET n == Len(vertices)
        IN IF n = 0 THEN ret = RuntimeError
           ELSE IF n <= 2 THEN ret = VertexAverage(vertices)
           ELSE IF SumTo([k \in 1..n |-> EdgeCross(vertices, k)], n) # 0
           THEN ret = AreaCentroid(vertices)
           ELSE ret = VertexAverage(vertices)

\* The cross products of the successive edges at every vertex triple,
\* around the end of the sequence, are all positive or all negative.
SameStrictSign(vs) ==
    LET cr(k) == Cross2(Sub(vs[NextIdx(vs, k)], vs[k]),
                        Sub(vs[NextIdx(vs, NextIdx(vs, k))], vs[NextIdx(vs, k)]))
    IN \/ \A k \in 1..Len(vs) : cr(k) > 0
       \/ \A k \in 1..Len(vs) : cr(k) < 0

\* C21 as stated: is_convex() is false for fewer than 3 vertices and
\* otherwise true exactly when the cross products of the successive edges
\* at all consecutive vertex triples have the same strict sign; the answer
\* is the same for every rotation of the vertex list and for its reversal.
C21_IsConvex ==
    op = "is_convex" =>
        /\ ret = (Len(vertices) >= 3 /\ SameStrictSign(vertices))
        /\ \A k \in 0..Len(vertices) : is_convex(Rotate(vertices, k)) = ret
        /\ is_convex(Reverse(vertices)) = ret

\* C22 as stated: for coefficients (a, b, c, d) that the constructor
\* accepts, the point of the plane is -d divided by a coefficient of
\* largest magnitude on the axis of that coefficient and 0 on the two other
\* axes; it is finite and satisfies a x + b y + c z + d = 0.
C22_CoefficientPoint ==
    (op = "Plane(a, b, c, d)" /\ plane # None) =>
        LET a == arg[1]
            b == arg[2]
            c == arg[3]
            d == arg[4]
            largest == Max(Abs(a), Max(Abs(b), Abs(c)))
            pt == plane.point
        IN /\ \/ Abs(a) = largest /\ pt = HPoint(-d, 0, 0, a)
              \/ Abs(b) = largest /\ pt = HPoint(0, -d, 0, b)
              \/ Abs(c) = largest /\ pt = HPoint(0, 0, -d, c)
           /\ pt.w # 0
           /\ a * pt.x + b * pt.y + c * pt.z + d * pt.w = 0

\* The length of the cross product of b - a and c - a, in whole units, is
\* below eps (a, b, c in the plane z = 0).
WithinEps(a, b, c, eps) ==
    LET cr == Cross2(Sub(b, a), Sub(c, a))
    IN IF eps = Frac(1, EpsInv) THEN cr = 0
       ELSE Abs(cr) * eps.den < eps.num * Scale * Scale

\* C23: simplify(epsilon) returns a polygon of fewer than 3 vertices as it
\* is; otherwise it returns, in their order, the first vertex, the last
\* vertex, and the vertices between them that are not collinear within
\* epsilon with the vertex before and the vertex after them.
C23_Simplify ==
    op = "simplify" =>
        LET n == Len(vertices)
            Kept(i) ==
                \/ i = 1
                \/ i = n
                \/ ~WithinEps(vertices[i - 1], vertices[i], vertices[i + 1], arg)
            kept == SelectSeq([i \in 1..n |-> i], Kept)
        IN IF n < 3 THEN ret = vertices
           ELSE ret = [k \in 1..Len(kept) |-> vertices[kept[k]]]

\* A polygon was simplified with epsilon 1.5 and lost a vertex that is not
\* on the line of its neighbours, and kept another vertex between the first
\* and the last.
C23_Witness ==
    /\ op = "simplify"
    /\ arg = Frac(3, 2)
    /\ Len(ret) >= 3
    /\ \E i \in 2..(Len(vertices) - 1) :
          /\ Cross2(Sub(vertices[i], vertices[i - 1]),
                    Sub(vertices[i + 1], vertices[i - 1])) # 0
          /\ vertices[i] \notin SetOf(ret)

\* C26 as stated: for a polygon of at least 3 vertices and exact
\* collinearity (whole coordinates, epsilon 1e-6, below every cross product
\* that is not 0), repeated consecutive vertices included, the simplified
\* polygon has the area of the polygon.
C26_SimplifyKeepsArea ==
    (op = "simplify" /\ arg = Frac(1, EpsInv) /\ Len(vertices) >= 3) =>
        area(ret) = area(vertices)

\* C24 as stated: distance(Line, Line), intersection(Line, Line) and
\* angle_with, all declared noexcept, return a value for every pair of
\* segments, a segment with start = end included: none of them raises an
\* error or ends the program.
C24_NoexceptReturns ==
    op \in { "distance(Line, Line)", "intersection(Line, Line)", "angle_with" } =>
        /\ ret # Terminate
        /\ ret # RuntimeError

\* The edge from vertex k of a polygon of at least 2 vertices
EdgeFrom(vs, k) == [start |-> vs[k], end |-> vs[NextIdx(vs, k)]]

\* Some edge of a meets some edge of b as Line::intersects sees it.
SomeEdgesIntersect(a, b) ==
    /\ Len(a) >= 2
    /\ Len(b) >= 2
    /\ \E i \in 1..Len(a), j \in 1..Len(b) :
          intersects(a[i], a[NextIdx(a, i)], EdgeFrom(b, j))

\* The polygon a contains a vertex of b, the boundary included, as
\* contains_point sees it.
ContainsVertexOf(a, b) == \E j \in 1..Len(b) : contains_point(a, b[j], TRUE)

\* C25: Polygon::intersects is symmetric, A.intersects(B) = B.intersects(A),
\* and true exactly when an edge of A intersects an edge of B or one of the
\* polygons contains a vertex of the other, the boundary included.
C25_IntersectsSymmetric ==
    op = "intersects(Polygon)" =>
        /\ ret = polygon_intersects(arg, vertices)
        /\ ret = (\/ SomeEdgesIntersect(vertices, arg)
                  \/ ContainsVertexOf(vertices, arg)
                  \/ ContainsVertexOf(arg, vertices))

\* A polygon that contains a vertex of the other, none of its edges meeting
\* an edge of the other, was tested and found to intersect the other, the
\* other having no vertex of it inside.
C25_Witness ==
    /\ op = "intersects(Polygon)"
    /\ ret = TRUE
    /\ ContainsVertexOf(vertices, arg)
    /\ ~ContainsVertexOf(arg, vertices)
    /\ ~SomeEdgesIntersect(vertices, arg)

====
